---------------------------- MODULE Spec2Model ----------------------------
(***************************************************************************)
(* Model of the market-data update pipeline of atticsu.github.io:          *)
(*   scripts/update_market_data.py  (main, fetch_prices,                   *)
(*                                   compute_net_values,                   *)
(*                                   update_live_weights, ...)             *)
(*   public/price/alpha_vantage.py  (AlphaVantage.get_daily_historic_data) *)
(*                                                                         *)
(* Calendar dates are day ordinals (integers).  The text form written to   *)
(* and read from the CSV files ("%Y-%m-%d") is modelled by the two decimal *)
(* digits of the day field, year and month being fixed.  Python floats are *)
(* modelled as exact rationals extended with the IEEE specials inf, -inf   *)
(* and nan, so that rounding noise is abstracted away while division by    *)
(* zero and fillna keep their behaviour.                                   *)
(***************************************************************************)
EXTENDS Integers, Sequences, FiniteSets, TLC

VARIABLES
  today,           \* date.today() of the current run
  market,          \* the provider's daily bars: market[t][d] = adjusted close, 0 = no bar
  rebalance_date,  \* portfolio_base_meta.json: rebalance_date
  base_portfolio,  \* portfolio_base.csv: sequence of [ticker, weight]
  legacy_file,     \* old_web/.../net_values.csv
  net_file,        \* public/data/net_values.csv
  live_file,       \* public/data/portfolio.csv
  pc,              \* position of the run: "exit", "call", "sleep", "join", "frame"
                   \* ("calc", "calc_done" when one function is applied alone)
  exit,            \* how the last run ended ("none": no run yet today, "running": in progress)
  branch,          \* history branch taken by main: "none", "resume", "fresh"
  phase,           \* which fetch_prices call is in progress: "hist" or "live"
  i,               \* loop index of fetch_prices (1-based)
  series_map,      \* fetch_prices: series collected so far, in ticker order
  existing_df,     \* main: the chosen existing history, loaded
  start_date,      \* fetch_prices: start_date of the call in progress
  start_value,     \* compute_net_values: start_value
  price_frame,     \* the aligned frame returned by the last fetch_prices
  net_values,      \* the segment returned by the last compute_net_values
  calls_made,      \* price-fetch calls issued so far by the current run
  gap,             \* seconds slept since the last price-fetch call of the run
  wrote,           \* the files written so far by the current run
  prevOk           \* a run has already completed successfully with this value of today

vars == << today, market, rebalance_date, base_portfolio, legacy_file, net_file,
           live_file, pc, exit, branch, phase, i, series_map, existing_df,
           start_date, start_value, price_frame, net_values, calls_made, gap,
           wrote, prevOk >>

-----------------------------------------------------------------------------
(* Bounds *)

MaxDay == 3          \* last calendar day the pipeline model reaches
MaxPrice == 2        \* adjusted close prices are drawn from 1..MaxPrice
MaxRows == 3         \* longest aligned frame given to compute_net_values alone
MaxLiveRows == 2     \* longest aligned frame given to update_live_weights alone

(* Program constants *)

REQUEST_SLEEP_SECONDS == 15
PadDays == 7
RoundDecimals == 4
Percent == 100

-----------------------------------------------------------------------------
(* Floats: exact rationals n/d (d > 0, lowest terms) plus inf, -inf, nan *)

Abs(x) == IF x < 0 THEN 0 - x ELSE x

RECURSIVE GCD(_, _)
GCD(a, b) == IF b = 0 THEN a ELSE GCD(b, a % b)

LCM(a, b) == (a \div GCD(a, b)) * b

Fin(n, d) ==
  LET s == IF d < 0 THEN 0 - 1 ELSE 1
      g == GCD(Abs(n), Abs(d))
  IN  [k |-> "fin", n |-> (s * n) \div g, d |-> (s * d) \div g]

NaN == [k |-> "nan", n |-> 0, d |-> 1]
PInf == [k |-> "inf", n |-> 1, d |-> 1]
NInf == [k |-> "inf", n |-> 0 - 1, d |-> 1]
Zero == Fin(0, 1)
One == Fin(1, 1)

IsFin(x) == x.k = "fin"
IsNaN(x) == x.k = "nan"
Sign(x) == IF x.n > 0 THEN 1 ELSE IF x.n < 0 THEN 0 - 1 ELSE 0
Signed(s) == IF s > 0 THEN PInf ELSE NInf

FNeg(x) == IF IsNaN(x) THEN NaN ELSE IF IsFin(x) THEN Fin(0 - x.n, x.d) ELSE Signed(0 - x.n)

FAdd(x, y) ==
  IF IsNaN(x) \/ IsNaN(y) THEN NaN
  ELSE IF IsFin(x) /\ IsFin(y) THEN
         Fin(x.n * (LCM(x.d, y.d) \div x.d) + y.n * (LCM(x.d, y.d) \div y.d), LCM(x.d, y.d))
  ELSE IF IsFin(x) THEN y
  ELSE IF IsFin(y) THEN x
  ELSE IF x.n = y.n THEN x ELSE NaN

FSub(x, y) == FAdd(x, FNeg(y))

FMul(x, y) ==
  IF IsNaN(x) \/ IsNaN(y) THEN NaN
  ELSE IF IsFin(x) /\ IsFin(y) THEN Fin(x.n * y.n, x.d * y.d)
  ELSE IF Sign(x) * Sign(y) = 0 THEN NaN
  ELSE Signed(Sign(x) * Sign(y))

FDiv(x, y) ==
  IF IsNaN(x) \/ IsNaN(y) THEN NaN
  ELSE IF IsFin(x) /\ IsFin(y) THEN
         IF y.n # 0 THEN Fin(x.n * y.d, x.d * y.n)
         ELSE IF x.n = 0 THEN NaN ELSE Signed(x.n)
  ELSE IF IsFin(y) THEN Signed(Sign(x) * (IF y.n < 0 THEN 0 - 1 ELSE 1))
  ELSE IF IsFin(x) THEN Zero
  ELSE NaN

FLeq(x, y) ==
  /\ IsFin(x)
  /\ IsFin(y)
  /\ x.n * (LCM(x.d, y.d) \div x.d) <= y.n * (LCM(x.d, y.d) \div y.d)

RECURSIVE FSum(_)
FSum(s) == IF s = <<>> THEN Zero ELSE FAdd(FSum(SubSeq(s, 1, Len(s) - 1)), s[Len(s)])

RECURSIVE Pow10(_)
Pow10(e) == IF e = 0 THEN 1 ELSE 10 * Pow10(e - 1)

(* numpy round: to the nearest multiple of 10^-decimals, ties to even *)
FRound(x, decimals) ==
  IF ~IsFin(x) THEN x
  ELSE LET scale == Pow10(decimals)
           num == x.n * scale
           q == num \div x.d
           r == num % x.d
           up == 2 * r > x.d \/ (2 * r = x.d /\ q % 2 = 1)
       IN  Fin(IF up THEN q + 1 ELSE q, scale)

FillNa(x, v) == IF IsNaN(x) THEN v ELSE x

-----------------------------------------------------------------------------
(* Dates and their text form *)

Strftime(d) == << d \div 10, d % 10 >>
ParseDate(s) == s[1] * 10 + s[2]

(* stable sort of rows by their date field *)
RECURSIVE InsertByDate(_, _)
InsertByDate(s, r) ==
  IF s = <<>> THEN << r >>
  ELSE IF r.date < Head(s).date THEN << r >> \o s
  ELSE << Head(s) >> \o InsertByDate(Tail(s), r)

RECURSIVE SortByDate(_)
SortByDate(s) ==
  IF s = <<>> THEN <<>>
  ELSE InsertByDate(SortByDate(SubSeq(s, 1, Len(s) - 1)), s[Len(s)])

RECURSIVE KeepLastFrom(_, _)
KeepLastFrom(s, n) ==
  IF n > Len(s) THEN <<>>
  ELSE IF \E j \in (n + 1)..Len(s) : s[j].date = s[n].date
       THEN KeepLastFrom(s, n + 1)
       ELSE << s[n] >> \o KeepLastFrom(s, n + 1)

DropDuplicatesKeepLast(s) == KeepLastFrom(s, 1)

DatesOf(s) == { s[n].date : n \in 1..Len(s) }
StrictlyAscending(s) == \A n \in 1..(Len(s) - 1) : s[n].date < s[n + 1].date

-----------------------------------------------------------------------------
(* load_base_portfolio *)

Tickers(bp) == [n \in 1..Len(bp) |-> bp[n].ticker]
WeightSum(bp) == FSum([n \in 1..Len(bp) |-> Fin(bp[n].weight, 1)])
BasePortfolioValid(bp) == ~FLeq(WeightSum(bp), Zero)
WeightFrac(bp) == [n \in 1..Len(bp) |-> FDiv(Fin(bp[n].weight, 1), WeightSum(bp))]

-----------------------------------------------------------------------------
(* compute_net_values *)

PctChange(nv) ==
  [r \in 1..Len(nv) |->
     IF r = 1 THEN NaN ELSE FSub(FDiv(nv[r], nv[r - 1]), One)]

(* variant: the ratio left unscaled *)
ScaleToStart_unscaled(ratio, sv) == ratio
ScaleToStart(ratio, sv) == FMul(ratio, sv)

compute_net_values(frame, base_weights, sv) ==
  LET n == Len(base_weights)
      base_prices == frame[1].px
      rel_prices == [r \in 1..Len(frame) |->
                       [c \in 1..n |-> FDiv(Fin(frame[r].px[c], 1), Fin(base_prices[c], 1))]]
      weighted == [r \in 1..Len(frame) |->
                     [c \in 1..n |-> FMul(rel_prices[r][c], base_weights[c])]]
      portfolio_value == [r \in 1..Len(frame) |-> FSum(weighted[r])]
      net_value == [r \in 1..Len(frame) |->
                      ScaleToStart(FDiv(portfolio_value[r], portfolio_value[1]), sv)]
      pct == PctChange(net_value)
  IN  [r \in 1..Len(frame) |->
         [date |-> Strftime(frame[r].date),
          net_value |-> net_value[r],
          pct_change |-> FillNa(pct[r], Zero)]]

-----------------------------------------------------------------------------
(* update_live_weights *)

(* variant: the values left as they are *)
Normalise_none(values) == values
Normalise(values) == [c \in 1..Len(values) |-> FDiv(values[c], FSum(values))]

update_live_weights(bp, frame) ==
  LET n == Len(bp)
      base_prices == frame[1].px
      latest_prices == frame[Len(frame)].px
      frac == WeightFrac(bp)
      latest_values == [c \in 1..n |->
                          FMul(frac[c], FDiv(Fin(latest_prices[c], 1), Fin(base_prices[c], 1)))]
      latest_weights == Normalise(latest_values)
  IN  [c \in 1..n |->
         [ticker |-> bp[c].ticker,
          weight |-> FRound(FMul(latest_weights[c], Fin(Percent, 1)), RoundDecimals)]]

-----------------------------------------------------------------------------
(* Input domains *)

Row(t, w) == [ticker |-> t, weight |-> w]

(* portfolio_base.csv contents given to the pipeline: two tickers *)
PipelineAllocations ==
  { << Row("A", 3), Row("B", 2) >>,
    << Row("A", 1), Row("B", 0 - 1) >> }

(* one day's bars of the two tickers: none, one ticker only, or both *)
DayQuotes ==
  { [A |-> 0, B |-> 0], [A |-> 1, B |-> 0], [A |-> 0, B |-> 2],
    [A |-> 1, B |-> 1], [A |-> 2, B |-> 1] }

(* allocations given to compute_net_values alone: every one loads *)
CalcAllocations ==
  { << Row("A", 3), Row("B", 2) >>,
    << Row("A", 1), Row("B", 1) >>,
    << Row("A", 0), Row("B", 1) >>,
    << Row("A", 2), Row("B", 0 - 1) >>,
    << Row("A", 0 - 1), Row("B", 3) >> }

(* allocations given to update_live_weights alone: every one loads *)
LiveAllocations ==
  { << Row("A", 1), Row("B", 1), Row("C", 1) >>,
    << Row("A", 3), Row("B", 2), Row("C", 1) >>,
    << Row("A", 0), Row("B", 1), Row("C", 2) >>,
    << Row("A", 2), Row("B", 0 - 1), Row("C", 1) >> }

StartValues == { Fin(1, 2), One, Fin(3, 1) }

(* aligned frames with n columns and 1..rows rows, on consecutive dates *)
Frames(n, rows) ==
  UNION { { [r \in 1..len |-> [date |-> r, px |-> f[r]]] :
              f \in [1..len -> [1..n -> 1..MaxPrice]] } : len \in 1..rows }

FileRow(d, v, p) == [date |-> Strftime(d), net_value |-> v, pct_change |-> p]
Absent == [exists |-> FALSE, rows |-> <<>>]
File(rows) == [exists |-> TRUE, rows |-> rows]

(* old_web/.../net_values.csv: absent, header only, one row, or rows out of order *)
LegacyFiles ==
  { Absent,
    File(<<>>),
    File(<< FileRow(1, One, Zero) >>),
    File(<< FileRow(2, Fin(3, 2), Fin(1, 2)), FileRow(1, One, Zero) >>) }

PipelineTickers == { "A", "B" }
Days == 1..MaxDay

-----------------------------------------------------------------------------
(* compute_net_values and update_live_weights applied to bounded inputs *)

InitLocals ==
  /\ exit = "none"
  /\ branch = "none"
  /\ phase = "hist"
  /\ i = 1
  /\ series_map = <<>>
  /\ existing_df = <<>>
  /\ start_date = 1
  /\ net_values = <<>>
  /\ calls_made = 0
  /\ gap = 0
  /\ wrote = {}
  /\ prevOk = FALSE

InitPure ==
  /\ today = 1
  /\ market = [t \in PipelineTickers |-> [d \in Days |-> 0]]
  /\ rebalance_date = 1
  /\ legacy_file = Absent
  /\ net_file = Absent
  /\ live_file = Absent
  /\ pc = "calc"
  /\ InitLocals

InitCalc ==
  /\ InitPure
  /\ base_portfolio \in CalcAllocations
  /\ price_frame \in Frames(2, MaxRows)
  /\ start_value \in StartValues

CalcNetValues ==
  /\ pc = "calc"
  /\ net_values' = compute_net_values(price_frame, WeightFrac(base_portfolio), start_value)
  /\ pc' = "calc_done"
  /\ UNCHANGED << today, market, rebalance_date, base_portfolio, legacy_file, net_file,
                  live_file, exit, branch, phase, i, series_map, existing_df,
                  start_date, start_value, price_frame, calls_made, gap, wrote, prevOk >>

NextCalc == CalcNetValues
SpecCalc == InitCalc /\ [][NextCalc]_vars

InitLive ==
  /\ InitPure
  /\ base_portfolio \in LiveAllocations
  /\ price_frame \in Frames(3, MaxLiveRows)
  /\ start_value = One

CalcLiveWeights ==
  /\ pc = "calc"
  /\ live_file' = File(update_live_weights(base_portfolio, price_frame))
  /\ pc' = "calc_done"
  /\ UNCHANGED << today, market, rebalance_date, base_portfolio, legacy_file, net_file,
                  net_values, exit, branch, phase, i, series_map, existing_df,
                  start_date, start_value, price_frame, calls_made, gap, wrote, prevOk >>

NextLive == CalcLiveWeights
SpecLive == InitLive /\ [][NextLive]_vars

-----------------------------------------------------------------------------
(* C6 as stated: for any non-empty aligned frame with positive prices, any    *)
(* weights with positive sum and any start_value > 0, the first row of        *)
(* compute_net_values has net_value = start_value and pct_change = 0, and     *)
(* every later row has pct_change = (nv(d) - nv(d-1)) / nv(d-1).              *)
C6_PctChangeAsStated ==
  pc = "calc_done" =>
    /\ net_values[1].net_value = start_value
    /\ net_values[1].pct_change = Zero
    /\ \A r \in 2..Len(net_values) :
         net_values[r].pct_change =
           FDiv(FSub(net_values[r].net_value, net_values[r - 1].net_value),
                net_values[r - 1].net_value)

(* C6 amended: the same, except that a later row whose net_value and whose    *)
(* predecessor's net_value are both 0 (the quotient is 0/0) has pct_change 0. *)
C6_NetValueSeries ==
  pc = "calc_done" =>
    /\ net_values[1].net_value = start_value
    /\ net_values[1].pct_change = Zero
    /\ \A r \in 2..Len(net_values) :
         net_values[r].pct_change =
           IF net_values[r].net_value = Zero /\ net_values[r - 1].net_value = Zero
           THEN Zero
           ELSE FDiv(FSub(net_values[r].net_value, net_values[r - 1].net_value),
                     net_values[r - 1].net_value)

(* a computed segment anchored at a start value other than 1 whose second row moved *)
C6_Witness ==
  /\ pc = "calc_done"
  /\ Len(net_values) >= 2
  /\ start_value # One
  /\ net_values[2].pct_change # Zero
  /\ net_values[1].net_value = start_value

-----------------------------------------------------------------------------
LiveWeightSum == FSum([c \in 1..Len(live_file.rows) |-> live_file.rows[c].weight])
NoNegativeWeight == \A c \in 1..Len(base_portfolio) : base_portfolio[c].weight >= 0
Tolerance == Fin(Len(base_portfolio), Pow10(RoundDecimals))

-----------------------------------------------------------------------------
(* AlphaVantage.get_daily_historic_data: the bars of ticker t from s to e,   *)
(* ascending; the empty frame when the request fails.                        *)

RECURSIVE BarsFrom(_, _, _)
BarsFrom(t, d, e) ==
  IF d > e THEN <<>>
  ELSE IF d \in Days /\ market[t][d] # 0
       THEN << [date |-> d, AdjClose |-> market[t][d]] >> \o BarsFrom(t, d + 1, e)
       ELSE BarsFrom(t, d + 1, e)

get_daily_historic_data(t, s, e, ok) == IF ok THEN BarsFrom(t, s, e) ELSE <<>>

-----------------------------------------------------------------------------
(* fetch_prices *)

InWindow(d, s, e) == d >= s /\ d <= e

KeepWindow(df, s, e) ==
  LET keep(bar) == InWindow(bar.date, s, e) IN SelectSeq(df, keep)

HasDate(series, d) == \E n \in 1..Len(series) : series[n].date = d
PriceOn(series, d) ==
  IF HasDate(series, d)
  THEN series[CHOOSE n \in 1..Len(series) : series[n].date = d].AdjClose
  ELSE 0

(* variant: a join on the first series' dates alone *)
ConcatInner_first(smap) ==
  SortByDate([r \in 1..Len(smap[1]) |->
    [date |-> smap[1][r].date,
     px |-> [c \in 1..Len(smap) |-> PriceOn(smap[c], smap[1][r].date)]]])

(* pd.concat(series_map, axis=1, join="inner").sort_index() *)
ConcatInner(smap) ==
  LET common(bar) == \A c \in 1..Len(smap) : HasDate(smap[c], bar.date)
      index == SelectSeq(smap[1], common)
  IN  SortByDate([r \in 1..Len(index) |->
        [date |-> index[r].date,
         px |-> [c \in 1..Len(smap) |-> PriceOn(smap[c], index[r].date)]]])

-----------------------------------------------------------------------------
(* main: the existing history *)

load_net_values(rows) ==
  DropDuplicatesKeepLast(SortByDate(
    [n \in 1..Len(rows) |->
       [date |-> ParseDate(rows[n].date),
        net_value |-> rows[n].net_value,
        pct_change |-> rows[n].pct_change]]))

ExistingCandidates ==
  (IF net_file.exists THEN << net_file.rows >> ELSE <<>>)
    \o (IF legacy_file.exists THEN << legacy_file.rows >> ELSE <<>>)

Loaded == [n \in 1..Len(ExistingCandidates) |-> load_net_values(ExistingCandidates[n])]

(* min(loaded, key=lambda d: d["date"].min()): the key of an empty frame is nan, *)
(* and comparing a date with nan raises TypeError                                *)
ChooseRaises ==
  /\ Len(Loaded) = 2
  /\ (Loaded[1] = <<>>) # (Loaded[2] = <<>>)

Chosen ==
  IF Len(Loaded) = 0 THEN <<>>
  ELSE IF Len(Loaded) = 1 THEN Loaded[1]
  ELSE IF Loaded[1] # <<>> /\ Loaded[2] # <<>> /\ Loaded[2][1].date < Loaded[1][1].date
       THEN Loaded[2]
       ELSE Loaded[1]

LastRow(df) == df[Len(df)]

UpToDate(t, last_date) == t <= last_date

(* variant: the window always starts at the rebalance date *)
WindowStart_rebalance(rebalance, last_date) == rebalance
WindowStart(rebalance, last_date) ==
  IF rebalance >= last_date THEN rebalance ELSE last_date

(* variant: a run on the rebalance date itself goes on *)
BeforeRebalance_strict(t, rebalance) == t < rebalance
BeforeRebalance(t, rebalance) == t <= rebalance

FreshStartValue == One

(* variant: the first row kept *)
NewRows_all(segment) == segment
NewRows(segment) == Tail(segment)

(* the rows to_csv writes for frame rows that hold date objects *)
ToCsvRows(df) ==
  [n \in 1..Len(df) |->
     [date |-> Strftime(df[n].date),
      net_value |-> df[n].net_value,
      pct_change |-> df[n].pct_change]]

Combined(existing, new_rows) == ToCsvRows(existing) \o new_rows

-----------------------------------------------------------------------------
(* The pipeline: one run of main after another, the day advancing between runs *)

Init ==
  /\ today = 1
  /\ \E q \in DayQuotes :
       market = [t \in PipelineTickers |-> [d \in Days |-> IF d = 1 THEN q[t] ELSE 0]]
  /\ rebalance_date \in Days
  /\ base_portfolio \in PipelineAllocations
  /\ legacy_file \in LegacyFiles
  /\ net_file = Absent
  /\ live_file = Absent
  /\ pc = "exit"
  /\ start_value = One
  /\ price_frame = <<>>
  /\ InitLocals

Inputs == << today, market, rebalance_date, base_portfolio, legacy_file >>

(* the run ends: SystemExit, an uncaught exception, or return *)
Ends(how) ==
  /\ pc' = "exit"
  /\ exit' = how
  /\ prevOk' = (prevOk \/ how \in {"ok", "uptodate"})

(* main starts: every local of the previous run is gone *)
Begins ==
  /\ pc = "exit"
  /\ i' = 1
  /\ series_map' = <<>>
  /\ price_frame' = <<>>
  /\ net_values' = <<>>
  /\ calls_made' = 0
  /\ gap' = 0
  /\ wrote' = {}
  /\ phase' = "hist"
  /\ UNCHANGED << Inputs, net_file, live_file >>

StartMissingInput ==
  /\ Begins
  /\ ~BasePortfolioValid(base_portfolio)
  /\ Ends("MissingInput")
  /\ branch' = "none"
  /\ existing_df' = <<>>
  /\ UNCHANGED << start_date, start_value >>

StartTypeError ==
  /\ Begins
  /\ BasePortfolioValid(base_portfolio)
  /\ ChooseRaises
  /\ Ends("TypeError")
  /\ branch' = "none"
  /\ existing_df' = <<>>
  /\ UNCHANGED << start_date, start_value >>

StartUpToDate ==
  /\ Begins
  /\ BasePortfolioValid(base_portfolio)
  /\ ~ChooseRaises
  /\ Chosen # <<>>
  /\ UpToDate(today, LastRow(Chosen).date)
  /\ Ends("uptodate")
  /\ branch' = "none"
  /\ existing_df' = Chosen
  /\ UNCHANGED << start_date, start_value >>

StartResume ==
  /\ Begins
  /\ BasePortfolioValid(base_portfolio)
  /\ ~ChooseRaises
  /\ Chosen # <<>>
  /\ ~UpToDate(today, LastRow(Chosen).date)
  /\ branch' = "resume"
  /\ existing_df' = Chosen
  /\ start_date' = WindowStart(rebalance_date, LastRow(Chosen).date)
  /\ start_value' = LastRow(Chosen).net_value
  /\ pc' = "call"
  /\ exit' = "running"
  /\ UNCHANGED prevOk

StartBeforeRebalance ==
  /\ Begins
  /\ BasePortfolioValid(base_portfolio)
  /\ ~ChooseRaises
  /\ Chosen = <<>>
  /\ BeforeRebalance(today, rebalance_date)
  /\ Ends("BeforeRebalance")
  /\ branch' = "none"
  /\ existing_df' = <<>>
  /\ UNCHANGED << start_date, start_value >>

StartFresh ==
  /\ Begins
  /\ BasePortfolioValid(base_portfolio)
  /\ ~ChooseRaises
  /\ Chosen = <<>>
  /\ ~BeforeRebalance(today, rebalance_date)
  /\ branch' = "fresh"
  /\ existing_df' = <<>>
  /\ start_date' = rebalance_date
  /\ start_value' = FreshStartValue
  /\ pc' = "call"
  /\ exit' = "running"
  /\ UNCHANGED prevOk

(* fetch_prices, one iteration of the loop up to the sleep *)
FetchCall ==
  /\ pc = "call"
  /\ \E ok \in BOOLEAN :
       LET ticker == Tickers(base_portfolio)[i]
           df == get_daily_historic_data(ticker, start_date - PadDays, today, ok)
           series == KeepWindow(df, start_date, today)
       IN  /\ calls_made' = calls_made + 1
           /\ gap' = 0
           /\ IF df = <<>> THEN Ends("NoData") /\ UNCHANGED series_map
              ELSE IF series = <<>> THEN Ends("NoDataInWindow") /\ UNCHANGED series_map
              ELSE /\ series_map' = Append(series_map, series)
                   /\ pc' = IF i < Len(base_portfolio) THEN "sleep" ELSE "join"
                   /\ UNCHANGED << exit, prevOk >>
  /\ UNCHANGED << Inputs, net_file, live_file, branch, phase, i, existing_df,
                  start_date, start_value, price_frame, net_values, wrote >>

(* fetch_prices: time.sleep between two iterations *)
Sleep ==
  /\ pc = "sleep"
  /\ gap' = gap + REQUEST_SLEEP_SECONDS
  /\ i' = i + 1
  /\ pc' = "call"
  /\ UNCHANGED << Inputs, net_file, live_file, exit, branch, phase, series_map,
                  existing_df, start_date, start_value, price_frame, net_values,
                  calls_made, wrote, prevOk >>

(* fetch_prices: the alignment after the loop *)
AlignPrices ==
  /\ pc = "join"
  /\ price_frame' = ConcatInner(series_map)
  /\ IF price_frame' = <<>> THEN Ends("NoOverlap")
     ELSE pc' = "frame" /\ UNCHANGED << exit, prevOk >>
  /\ UNCHANGED << Inputs, net_file, live_file, branch, phase, i, series_map,
                  existing_df, start_date, start_value, net_values, calls_made,
                  gap, wrote >>

(* main: the history is computed and written, and the live fetch begins *)
UpdateHistory ==
  /\ pc = "frame"
  /\ phase = "hist"
  /\ net_values' = compute_net_values(price_frame, WeightFrac(base_portfolio), start_value)
  /\ net_file' = IF branch = "resume"
                 THEN File(Combined(existing_df, NewRows(net_values')))
                 ELSE File(net_values')
  /\ wrote' = wrote \cup {"net_values"}
  /\ phase' = "live"
  /\ start_date' = rebalance_date
  /\ series_map' = <<>>
  /\ i' = 1
  /\ pc' = "call"
  /\ UNCHANGED << Inputs, live_file, exit, branch, existing_df, start_value,
                  price_frame, calls_made, gap, prevOk >>

(* main: the live weights are computed and written, and main returns *)
UpdateLive ==
  /\ pc = "frame"
  /\ phase = "live"
  /\ live_file' = File(update_live_weights(base_portfolio, price_frame))
  /\ wrote' = wrote \cup {"portfolio"}
  /\ Ends("ok")
  /\ UNCHANGED << Inputs, net_file, branch, phase, i, series_map, existing_df,
                  start_date, start_value, price_frame, net_values, calls_made, gap >>

(* the next calendar day: the provider has that day's bars, or none; the last *)
(* run's process and its locals are long gone                                 *)
AdvanceDay ==
  /\ pc = "exit"
  /\ today < MaxDay
  /\ today' = today + 1
  /\ \E q \in DayQuotes :
       market' = [t \in PipelineTickers |->
                    [d \in Days |-> IF d = today + 1 THEN q[t] ELSE market[t][d]]]
  /\ exit' = "none"
  /\ branch' = "none"
  /\ phase' = "hist"
  /\ i' = 1
  /\ series_map' = <<>>
  /\ existing_df' = <<>>
  /\ start_date' = 1
  /\ start_value' = One
  /\ price_frame' = <<>>
  /\ net_values' = <<>>
  /\ calls_made' = 0
  /\ gap' = 0
  /\ wrote' = {}
  /\ prevOk' = FALSE
  /\ UNCHANGED << rebalance_date, base_portfolio, legacy_file, net_file, live_file, pc >>

Next ==
  \/ StartMissingInput
  \/ StartTypeError
  \/ StartUpToDate
  \/ StartResume
  \/ StartBeforeRebalance
  \/ StartFresh
  \/ FetchCall
  \/ Sleep
  \/ AlignPrices
  \/ UpdateHistory
  \/ UpdateLive
  \/ AdvanceDay

Spec == Init /\ [][Next]_vars

-----------------------------------------------------------------------------
FetchErrors == { "NoData", "NoDataInWindow", "NoOverlap" }
Ended(how) == pc = "exit" /\ exit = how

(* the days of [s, e] on which every ticker of the portfolio has a bar *)
CommonDays(s, e) ==
  { d \in Days : /\ s <= d
                 /\ d <= e
                 /\ \A c \in 1..Len(base_portfolio) : market[base_portfolio[c].ticker][d] # 0 }

ParsedDates(rows) == [n \in 1..Len(rows) |-> [date |-> ParseDate(rows[n].date)]]

(* C1 as stated: a run that finds the persisted series up to date (today <=   *)
(* its last date) leaves the net-value record alone but still fetches over    *)
(* [rebalance_date, today] and writes the live portfolio record.              *)
C1_UpToDateRunWritesLive ==
  Ended("uptodate") =>
    /\ "net_values" \notin wrote
    /\ "portfolio" \in wrote
    /\ calls_made > 0

(* C2 as stated: a run in which a price-fetch call failed has written neither  *)
(* the net-value record nor the live portfolio record.                         *)
C2_FailedRunWritesNothing ==
  (pc = "exit" /\ exit \in FetchErrors) => wrote = {}

(* C3: the persisted net-value history always has strictly ascending dates    *)
(* (no duplicate date), and after a run has written it every row of the       *)
(* existing series the run chose is still in it, with the same values.        *)
C3_HistoryAscendingKeepsRows ==
  /\ net_file.exists => StrictlyAscending(ParsedDates(net_file.rows))
  /\ "net_values" \in wrote =>
       \A n \in 1..Len(existing_df) :
         \E m \in 1..Len(net_file.rows) : net_file.rows[m] = ToCsvRows(existing_df)[n]

(* a resumed run has appended rows to the series it chose *)
C3_Witness ==
  /\ branch = "resume"
  /\ "net_values" \in wrote
  /\ Len(existing_df) >= 2
  /\ Len(net_file.rows) > Len(existing_df)

(* C4: once a run has completed successfully with the current value of today  *)
(* (and the same bars), no later step of any run changes the persisted        *)
(* net-value history.                                                         *)
C4_RerunLeavesHistory == [][prevOk => net_file' = net_file]_vars

(* a second run of the same day, with today after the last persisted date,    *)
(* has rewritten the history and gone on to the live fetch                    *)
C4_Witness ==
  /\ prevOk
  /\ pc = "call"
  /\ phase = "live"
  /\ branch = "resume"
  /\ "net_values" \in wrote
  /\ today > LastRow(existing_df).date

(* C5 as stated: in a resumed run the first row of the computed segment is     *)
(* the resume anchor (last_date, last_value), so the discarded row is never a  *)
(* row for a later date.  Stated here for the runs in which every ticker has   *)
(* a bar on last_date, so that the anchor day itself is not missing from the   *)
(* provider's data.                                                            *)
C5_DroppedRowIsAnchor ==
  (/\ branch = "resume"
   /\ "net_values" \in wrote
   /\ LastRow(existing_df).date \in CommonDays(1, today)) =>
    /\ net_values[1].date = Strftime(LastRow(existing_df).date)
    /\ net_values[1].net_value = LastRow(existing_df).net_value

(* C7: the frame fetch_prices returns holds exactly the days of the requested *)
(* window on which every ticker has a bar, in ascending order, with each      *)
(* ticker's price of that day; it is never empty, and the run ends with the   *)
(* no-overlap error only when there is no such day.                           *)
C7_AlignedFrame ==
  /\ pc = "frame" =>
       /\ price_frame # <<>>
       /\ DatesOf(price_frame) = CommonDays(start_date, today)
       /\ StrictlyAscending(price_frame)
       /\ \A r \in 1..Len(price_frame) : \A c \in 1..Len(base_portfolio) :
            price_frame[r].px[c] = market[base_portfolio[c].ticker][price_frame[r].date]
  /\ Ended("NoOverlap") => CommonDays(start_date, today) = {}

(* a frame of two or more days aligned from series of which one is longer *)
C7_Witness ==
  /\ pc = "frame"
  /\ Len(price_frame) >= 2
  /\ \E c \in 1..Len(series_map) : Len(series_map[c]) > Len(price_frame)

(* C8: with no persisted series (none, or an empty one) a run on or before    *)
(* the rebalance date ends with the before-rebalance error having fetched and *)
(* written nothing; after the rebalance date it computes the series over      *)
(* [rebalance_date, today] from start value 1 and writes it as the whole      *)
(* history.                                                                   *)
C8_NoHistoryYet ==
  /\ Ended("BeforeRebalance") =>
       /\ today <= rebalance_date
       /\ calls_made = 0
       /\ wrote = {}
       /\ existing_df = <<>>
  /\ branch = "fresh" => (today > rebalance_date /\ existing_df = <<>>)
  /\ (branch = "fresh" /\ "net_values" \in wrote) =>
       /\ net_file = File(net_values)
       /\ net_values[1].net_value = One
       /\ DatesOf(ParsedDates(net_values)) = CommonDays(rebalance_date, today)

(* a first history of two or more days, written although a legacy file exists *)
C8_Witness ==
  /\ branch = "fresh"
  /\ "net_values" \in wrote
  /\ legacy_file.exists
  /\ Len(net_file.rows) >= 2

(* C10 as stated: whenever a run is about to issue a price-fetch call after    *)
(* an earlier one, the fixed delay has elapsed since that earlier call.        *)
C10_DelayBeforeEveryCall ==
  (pc = "call" /\ calls_made > 0) => gap >= REQUEST_SLEEP_SECONDS

=============================================================================
